---- MODULE Spec2Model ----
(***************************************************************************)
(* Model of server.py: a static file server built on                      *)
(* socketserver.TCPServer and http.server.SimpleHTTPRequestHandler.       *)
(*                                                                         *)
(* server.py itself is a thin layer (handler subclass + start_server); the *)
(* behaviour it inherits from the two library classes is modelled here as  *)
(* the CPython 3.11 library executes it, because every call the handler    *)
(* makes is part of the handler.                                           *)
(*                                                                         *)
(* Part 1: the file system and path translation.                           *)
(* Part 2: the request handler (one request -> the events it produces).    *)
(* Part 3: the server process (start_server, the serve loop, clients).     *)
(* Part 4: the properties.                                                 *)
(***************************************************************************)
EXTENDS Integers, Sequences, FiniteSets, TLC

(***************************************************************************)
(* Bounds of the exploration.                                              *)
(***************************************************************************)
\* longest request path, in components
MaxPathLen == 2
\* most junk words between the request target and the version
MaxExtra == 1
\* number of client connections
MaxConns == 2

(***************************************************************************)
(* Part 1.  File system and paths                                          *)
(***************************************************************************)

\* server.py:13
PORT == 13883

\* server.py:14  DIRECTORY = Path(__file__).parent / "src"; server.py lives
\* in the directory /app.
DIRECTORY == <<"app", "src">>

\* The file systems explored.  "noroot": /app/src is missing.  "plain": /app/src
\* holds index.html, secret.txt and the directory sub.  "link": as plain, but
\* sub is a symbolic link to /app.  /app/secret.txt lies outside DIRECTORY in
\* all of them.
FsConfigs == {"noroot", "plain", "link"}

NoNode == [kind |-> "none", bytes |-> <<>>, mtime |-> 0, target |-> <<>>]
DirNode == [kind |-> "dir", bytes |-> <<>>, mtime |-> 0, target |-> <<>>]
FileNode(b, t) == [kind |-> "file", bytes |-> b, mtime |-> t, target |-> <<>>]
LinkNode(p) == [kind |-> "link", bytes |-> <<>>, mtime |-> 0, target |-> p]

\* lstat: the node at an absolute path, links not followed
NodeAt(cfg, p) ==
  IF p = <<>> \/ p = <<"app">> THEN DirNode
  ELSE IF p = <<"app", "secret.txt">> THEN FileNode(<<9, 9>>, 1)
  ELSE IF cfg = "noroot" THEN NoNode
  ELSE IF p = <<"app", "src">> THEN DirNode
  ELSE IF p = <<"app", "src", "index.html">> THEN FileNode(<<1, 2, 3>>, 1)
  ELSE IF p = <<"app", "src", "secret.txt">> THEN FileNode(<<4>>, 1)
  ELSE IF p = <<"app", "src", "sub">>
    THEN IF cfg = "link" THEN LinkNode(<<"app">>) ELSE DirNode
  ELSE IF p = <<"app", "src", "sub", "secret.txt">> /\ cfg = "plain"
    THEN FileNode(<<5, 6>>, 1)
  ELSE NoNode

\* The kernel's path walk: the physical path that the absolute path p names,
\* every symbolic link followed; <<"?">> when a component is missing or is
\* not a directory.
RECURSIVE Walk(_, _, _)
Walk(cfg, done, rest) ==
  IF rest = <<>> THEN done
  ELSE LET next == Append(done, Head(rest))
           n == NodeAt(cfg, next)
       IN IF NodeAt(cfg, done).kind # "dir" THEN <<"?">>
          ELSE IF Head(rest) = "." THEN Walk(cfg, done, Tail(rest))
          ELSE IF Head(rest) = ".."
            THEN Walk(cfg, SubSeq(done, 1, Len(done) - 1), Tail(rest))
          ELSE IF n.kind = "link" THEN Walk(cfg, n.target, Tail(rest))
          ELSE IF n.kind = "none" THEN <<"?">>
          ELSE Walk(cfg, next, Tail(rest))

RealPath(cfg, p) == Walk(cfg, <<>>, p)

\* stat: the node a path names, links followed
Stat(cfg, p) ==
  IF RealPath(cfg, p) = <<"?">> THEN NoNode ELSE NodeAt(cfg, RealPath(cfg, p))

\* A file-system path as the handler holds it: components plus whether the
\* string ends in "/".
FsPath(comps, slash) == [comps |-> comps, slash |-> slash]

\* os.path.isdir: "x/" and "x" both name the directory x
isdir(cfg, path) == Stat(cfg, path.comps).kind = "dir"

\* os.path.isfile
isfile(cfg, path) == ~path.slash /\ Stat(cfg, path.comps).kind = "file"

\* open(path, 'rb') succeeds: a regular file, and no trailing slash (ENOTDIR)
CanOpen(cfg, path) == isfile(cfg, path)

IsPrefix(s, t) == Len(s) <= Len(t) /\ SubSeq(t, 1, Len(s)) = s

\* the physical file a path names lies under DIRECTORY
UnderRoot(cfg, p) == IsPrefix(DIRECTORY, RealPath(cfg, p))

\* The components a request path is built from.
PathWords == {"..", "%2e%2e", "sub", "secret.txt"}

\* urllib.parse.unquote on one component
unquote(w) == IF w = "%2e%2e" THEN ".." ELSE w

\* posixpath.normpath on the components of a path; abs: it starts with "/"
RECURSIVE normpath(_, _, _)
normpath(abs, comps, acc) ==
  IF comps = <<>> THEN (IF acc = <<>> /\ ~abs THEN <<".">> ELSE acc)
  ELSE LET c == Head(comps)
           rest == Tail(comps)
       IN IF c = "." THEN normpath(abs, rest, acc)
          ELSE IF c # ".." THEN normpath(abs, rest, Append(acc, c))
          ELSE IF (~abs /\ acc = <<>>) \/ (acc # <<>> /\ acc[Len(acc)] = "..")
            THEN normpath(abs, rest, Append(acc, c))
          ELSE IF acc # <<>> THEN normpath(abs, rest, SubSeq(acc, 1, Len(acc) - 1))
          ELSE normpath(abs, rest, acc)

\* the loop of translate_path with every component joined
RECURSIVE JoinWordsKeepingDots(_, _)
JoinWordsKeepingDots(path, words) ==
  IF words = <<>> THEN path
  ELSE JoinWordsKeepingDots(Append(path, Head(words)), Tail(words))

\* the loop of translate_path: components that are "." or ".." are skipped
RECURSIVE JoinWords(_, _)
JoinWords(path, words) ==
  IF words = <<>> THEN path
  ELSE IF Head(words) \in {".", ".."} THEN JoinWords(path, Tail(words))
  ELSE JoinWords(Append(path, Head(words)), Tail(words))

\* a request target: "/"-separated components, a leading and a trailing "/"
Target(abs, comps, slash) == [abs |-> abs, comps |-> comps, slash |-> slash]

\* SimpleHTTPRequestHandler.translate_path with self.directory = directory
translate_path(directory, t) ==
  LET unq == [i \in 1..Len(t.comps) |-> unquote(t.comps[i])]
      words == normpath(t.abs, unq, <<>>)
  IN FsPath(JoinWords(directory, words), t.slash)

(***************************************************************************)
(* Part 2.  The request handler                                            *)
(***************************************************************************)

\* An HTTP version word "proto/a.b": parts holds the dot-separated components
\* after the "/", a component that is not all digits held as -1.
V(proto, parts) == [proto |-> proto, parts |-> parts]
\* no version word in the request line; also the empty string ''
NoVersion == V("", <<>>)
\* BaseHTTPRequestHandler.default_request_version
V09 == V("HTTP", <<0, 9>>)
V11 == V("HTTP", <<1, 1>>)
\* a word that is not a version at all ("GET /a b")
JunkVersion == V("junk", <<>>)
Versions == {NoVersion, V11, V09, V("HTTP", <<2, 0>>), V("FOO", <<1, 1>>),
             V("HTTP", <<1>>), V("HTTP", <<1, -1>>)}

Commands == {"GET", "HEAD", "OPTIONS", "POST"}

\* If-Modified-Since: absent, or a time; the files' mtime is 1
NoIMS == 0 - 1
IMSValues == {NoIMS, 0, 1}

\* all sequences over S of length at most n
SeqsUpTo(S, n) == UNION {[1..k -> S] : k \in 0..n}

\* The request targets: the empty component list is the target "/".
Targets ==
  {Target(a, c, s) : a \in BOOLEAN, s \in BOOLEAN, c \in SeqsUpTo(PathWords, MaxPathLen)}
  \ {t \in {Target(a, <<>>, s) : a \in BOOLEAN, s \in BOOLEAN} : ~(t.abs /\ t.slash)}

NoTarget == Target(FALSE, <<>>, FALSE)

\* What a client sends.  shape "eof": it closes without sending; "blank": an
\* empty line; "toolong": a request line over 65536 bytes; "line": the words
\* command [target] [extra junk words] [version], then the header block.
Request(shape, command, hasTarget, target, extra, version, ims, inm) ==
  [shape |-> shape, command |-> command, hasTarget |-> hasTarget, target |-> target,
   extra |-> extra, version |-> version, ims |-> ims, inm |-> inm]

Special(shape) == Request(shape, "", FALSE, NoTarget, 0, NoVersion, NoIMS, FALSE)

\* GET and HEAD requests with a well-formed line, over every target and
\* every combination of the conditional headers
PathRequests ==
  {Request("line", c, TRUE, t, 0, V11, i, m) :
     c \in {"GET", "HEAD"}, t \in Targets, i \in IMSValues, m \in BOOLEAN}

\* every shape of request line, over two targets
ProbeTargets == {Target(TRUE, <<>>, TRUE), Target(TRUE, <<"secret.txt">>, FALSE)}
LineRequests ==
  {Request("line", c, TRUE, t, e, v, NoIMS, FALSE) :
     c \in Commands, t \in ProbeTargets, e \in 0..MaxExtra, v \in Versions}
  \cup {Request("line", c, FALSE, NoTarget, 0, NoVersion, NoIMS, FALSE) : c \in Commands}

Requests ==
  PathRequests \cup LineRequests \cup {Special("eof"), Special("blank"), Special("toolong")}

\* len(requestline.split())
NWords(r) ==
  IF r.shape # "line" THEN 0
  ELSE 1 + (IF r.hasTarget THEN 1 ELSE 0) + r.extra
         + (IF r.version # NoVersion THEN 1 ELSE 0)

\* words[-1]
LastWord(r) == IF r.version # NoVersion THEN r.version ELSE JunkVersion

\* What can go wrong underneath the handler while it runs: "print": print()
\* raises (standard output is closed or cannot encode the line); "write": the
\* client has gone and writing to the socket raises.
Faults == {"none", "print", "write"}

\* One line of a header block; the status line has the protocol as its name
\* and the status code as num.
Line(name, value, num) == [name |-> name, value |-> value, num |-> num]
StatusLine(code) == Line("HTTP/1.0", "", code)
BlankLine == Line("", "", 0)

\* The events a handler produces, in order: a line printed, a header block
\* written to the socket, a body written to the socket.
LogEv(fmt, code) ==
  [kind |-> "log", fmt |-> fmt, code |-> code, lines |-> <<>>, bytes |-> <<>>, src |-> ""]
HeadEv(lines) ==
  [kind |-> "head", fmt |-> "", code |-> 0, lines |-> lines, bytes |-> <<>>, src |-> ""]
BodyEv(bytes, src) ==
  [kind |-> "body", fmt |-> "", code |-> 0, lines |-> <<>>, bytes |-> bytes, src |-> src]

NoFile == <<"-">>

\* A handler instance for one connection, before handle() runs.
\* parsed: parse_request returned True; f: the file send_head opened;
\* error: the code send_error was called with; raised: the exception
\* propagating out of the handler.
NewHandler(directory, cfg, req, fault) ==
  [directory |-> directory, cfg |-> cfg, req |-> req, fault |-> fault,
   request_version |-> V09, command |-> "", path |-> NoTarget,
   parsed |-> FALSE, buf |-> <<>>, events |-> <<>>, f |-> NoFile,
   error |-> 0, raised |-> "none"]

NoHandler == NewHandler(<<>>, "plain", Special("eof"), "none")

Raised(h) == h.raised # "none"

\* a log_message that prints nothing
log_message_silent(h, fmt, code) == h

\* server.py:29-31  print(...)
log_message(h, fmt, code) ==
  IF Raised(h) THEN h
  ELSE IF h.fault = "print" THEN [h EXCEPT !.raised = "print"]
  ELSE [h EXCEPT !.events = Append(@, LogEv(fmt, code))]

log_request(h, code) == log_message(h, "request", code)
log_error(h, code) == log_message(h, "error", code)

\* wfile.write: the socket is unbuffered (wbufsize = 0)
write(h, ev) ==
  IF Raised(h) THEN h
  ELSE IF h.fault = "write" THEN [h EXCEPT !.raised = "write"]
  ELSE [h EXCEPT !.events = Append(@, ev)]

send_response_only(h, code) ==
  IF Raised(h) \/ h.request_version = V09 THEN h
  ELSE [h EXCEPT !.buf = Append(@, StatusLine(code))]

send_header(h, keyword, value, num) ==
  IF Raised(h) \/ h.request_version = V09 THEN h
  ELSE [h EXCEPT !.buf = Append(@, Line(keyword, value, num))]

\* the log line comes first, then the status line and two headers are buffered
send_response(h, code) ==
  send_header(
    send_header(send_response_only(log_request(h, code), code),
                "Server", "SimpleHTTP", 0),
    "Date", "now", 0)

flush_headers(h) ==
  IF Raised(h) THEN h ELSE write([h EXCEPT !.buf = <<>>], HeadEv(h.buf))

\* BaseHTTPRequestHandler.end_headers
BaseEndHeaders(h) ==
  IF Raised(h) \/ h.request_version = V09 THEN h
  ELSE flush_headers([h EXCEPT !.buf = Append(@, BlankLine)])

\* an end_headers that leaves out Access-Control-Allow-Headers
end_headers_two_cors(h) ==
  BaseEndHeaders(
    send_header(
      send_header(h, "Access-Control-Allow-Origin", "*", 0),
      "Access-Control-Allow-Methods", "GET, POST, OPTIONS", 0))

\* server.py:22-27
end_headers(h) ==
  BaseEndHeaders(
    send_header(
      send_header(
        send_header(h, "Access-Control-Allow-Origin", "*", 0),
        "Access-Control-Allow-Methods", "GET, POST, OPTIONS", 0),
      "Access-Control-Allow-Headers", "Content-Type", 0))

\* the HTML page send_error writes for a code
ErrorBody(code) == <<code>>

send_error(h, code) ==
  LET hasBody == code >= 200 /\ code \notin {204, 205, 304}
      h1 == [log_error(h, code) EXCEPT !.error = code]
      h2 == send_header(send_response(h1, code), "Connection", "close", 0)
      h3 == IF hasBody
              THEN send_header(
                     send_header(h2, "Content-Type", "text/html;charset=utf-8", 0),
                     "Content-Length", "", Len(ErrorBody(code)))
              ELSE h2
      h4 == end_headers(h3)
  IN IF h.command # "HEAD" /\ hasBody
       THEN write(h4, BodyEv(ErrorBody(code), "error"))
       ELSE h4

\* the version word has the syntax HTTP/<digits>.<digits>
VersionSyntaxOK(v) ==
  /\ v.proto = "HTTP"
  /\ Len(v.parts) = 2
  /\ \A i \in 1..Len(v.parts) : v.parts[i] >= 0

\* BaseHTTPRequestHandler.parse_request up to the header block: parsed tells
\* whether it returned True.  protocol_version is "HTTP/1.0", so
\* close_connection stays True and no 100 Continue is sent: a connection
\* carries one request.
parse_request(h) ==
  LET r == h.req
      n == NWords(r)
      h0 == [h EXCEPT !.command = "", !.request_version = V09]
      version == LastWord(r)
      badVersion == n >= 3 /\ ~VersionSyntaxOK(version)
      tooNew == n >= 3 /\ VersionSyntaxOK(version) /\ version.parts[1] >= 2
      h1 == IF n >= 3 /\ ~badVersion /\ ~tooNew
              THEN [h0 EXCEPT !.request_version = version]
              ELSE h0
  IN IF n = 0 THEN h0
     ELSE IF badVersion THEN send_error(h0, 400)
     ELSE IF tooNew THEN send_error(h0, 505)
     ELSE IF ~(2 <= n /\ n <= 3) THEN send_error(h1, 400)
     ELSE IF n = 2 /\ r.command # "GET" THEN send_error(h1, 400)
     ELSE [h1 EXCEPT !.command = r.command, !.path = r.target, !.parsed = TRUE]

\* mimetypes: the content type of a file name
guess_type(comps) ==
  LET name == comps[Len(comps)]
  IN IF name = "index.html" THEN "text/html"
     ELSE IF name = "secret.txt" THEN "text/plain"
     ELSE "application/octet-stream"

\* send_head from "ctype = self.guess_type(path)" on: open the file and send
\* 304 or the 200 header block
SendFileHead(h, path) ==
  LET node == Stat(h.cfg, path.comps)
      notModified == h.req.ims # NoIMS /\ ~h.req.inm /\ node.mtime <= h.req.ims
      opened == [h EXCEPT !.f = path.comps]
      h304 == end_headers(send_response(opened, 304))
      h200 == end_headers(
                send_header(
                  send_header(
                    send_header(send_response(opened, 200),
                                "Content-type", guess_type(path.comps), 0),
                    "Content-Length", "", Len(node.bytes)),
                  "Last-Modified", "", node.mtime))
  IN IF path.slash THEN send_error(h, 404)
     ELSE IF ~CanOpen(h.cfg, path) THEN send_error(h, 404)
     ELSE IF notModified THEN [h304 EXCEPT !.f = NoFile]
     ELSE IF Raised(h200) THEN [h200 EXCEPT !.f = NoFile]
     ELSE h200

\* the page list_directory builds
Listing(comps) == <<0>>

\* SimpleHTTPRequestHandler.list_directory: every directory of the model
\* can be listed
list_directory(h, path) ==
  LET h1 == end_headers(
              send_header(
                send_header(send_response(h, 200),
                            "Content-type", "text/html; charset=utf-8", 0),
                "Content-Length", "", Len(Listing(path.comps))))
  IN IF Raised(h1) THEN h1 ELSE [h1 EXCEPT !.f = <<"listing">> \o path.comps]

IndexNames == <<"index.html", "index.htm">>

\* SimpleHTTPRequestHandler.send_head; f of the result is the file to copy
send_head(h) ==
  LET path == translate_path(h.directory, h.path)
      idx(i) == FsPath(Append(path.comps, IndexNames[i]), FALSE)
      found == {i \in 1..Len(IndexNames) : isfile(h.cfg, idx(i))}
      first == CHOOSE i \in found : \A j \in found : i <= j
  IN IF isdir(h.cfg, path)
       THEN IF ~h.path.slash
              THEN end_headers(
                     send_header(
                       send_header(send_response(h, 301), "Location", "path/", 0),
                       "Content-Length", "", 0))
            ELSE IF found # {} THEN SendFileHead(h, idx(first))
            ELSE list_directory(h, path)
     ELSE SendFileHead(h, path)

\* what the file object f holds
Contents(cfg, f) ==
  IF f[1] = "listing" THEN Listing(Tail(f)) ELSE Stat(cfg, f).bytes

BodySource(f) == IF f[1] = "listing" THEN "listing" ELSE "file"

\* SimpleHTTPRequestHandler.copyfile: shutil.copyfileobj writes nothing for
\* an empty file
copyfile(h) ==
  IF Contents(h.cfg, h.f) = <<>> THEN h
  ELSE write(h, BodyEv(Contents(h.cfg, h.f), BodySource(h.f)))

do_GET(h) ==
  LET h1 == send_head(h)
  IN IF Raised(h1) \/ h1.f = NoFile THEN h1 ELSE copyfile(h1)

do_HEAD(h) == send_head(h)

\* server.py:16-31: the do_* methods MyHTTPRequestHandler has are the two it
\* inherits; it defines none
HandlerMethods == {"GET", "HEAD"}

\* BaseHTTPRequestHandler.handle_one_request (handle calls it once)
handle_one_request(h) ==
  IF h.req.shape = "toolong"
    THEN send_error([h EXCEPT !.request_version = NoVersion, !.command = ""], 414)
  ELSE IF h.req.shape = "eof" THEN h
  ELSE LET p == parse_request(h)
       IN IF ~p.parsed THEN p
          ELSE IF p.command \notin HandlerMethods THEN send_error(p, 501)
          ELSE IF p.command = "GET" THEN do_GET(p)
          ELSE do_HEAD(p)

\* a handler constructed with the directory of server.py itself
HandlerInParentDirectory(cfg, req, fault) ==
  handle_one_request(NewHandler(SubSeq(DIRECTORY, 1, Len(DIRECTORY) - 1), cfg, req, fault))

\* server.py:19-20: constructing the handler with directory=DIRECTORY runs
\* setup(), handle() and finish() for the connection
MyHTTPRequestHandler(cfg, req, fault) ==
  handle_one_request(NewHandler(DIRECTORY, cfg, req, fault))

(***************************************************************************)
(* Part 3.  The server process                                             *)
(***************************************************************************)

VARIABLES
  cfg,              \* the file system the process runs on
  bound,            \* the ports another process holds
  pc,               \* where the main thread is in start_server
  sock,             \* httpd.socket: "none", "listening" or "closed"
  isShutDown,       \* httpd.__is_shut_down (a threading.Event)
  shutdownRequest,  \* httpd.__shutdown_request
  arrived,          \* connections clients have made; they queue in order
  accepted,         \* connections the serve loop has accepted
  h,                \* the handler instance of the accepted connection
  errors,           \* tracebacks handle_error has printed
  console,          \* what start_server itself has printed
  interrupted,      \* where the main thread was when SIGINT arrived
  exitCode          \* the exit code of the process; -1 while it runs

vars == <<cfg, bound, pc, sock, isShutDown, shutdownRequest, arrived, accepted,
          h, errors, console, interrupted, exitCode>>

Running == 0 - 1

Init ==
  /\ cfg \in FsConfigs
  /\ bound \in {{}, {PORT}}
  /\ pc = "start"
  /\ sock = "none"
  /\ isShutDown = FALSE
  /\ shutdownRequest = FALSE
  /\ arrived = 0
  /\ accepted = 0
  /\ h = NoHandler
  /\ errors = 0
  /\ console = <<>>
  /\ interrupted = "no"
  /\ exitCode = Running

\* server.py:36  socketserver.TCPServer(("", PORT), MyHTTPRequestHandler):
\* bind and listen; when bind raises, __init__ closes the socket and the
\* exception leaves start_server uncaught.
TCPServer ==
  /\ pc = "start"
  /\ IF PORT \in bound
       THEN /\ sock' = "closed"
            /\ pc' = "exited"
            /\ exitCode' = 1
       ELSE /\ sock' = "listening"
            /\ pc' = "banner"
            /\ exitCode' = exitCode
  /\ UNCHANGED <<cfg, bound, isShutDown, shutdownRequest, arrived, accepted, h,
                 errors, console, interrupted>>

\* server.py:37-44
Banner ==
  /\ pc = "banner"
  /\ console' = Append(console, "banner")
  /\ pc' = "serve_forever"
  /\ UNCHANGED <<cfg, bound, sock, isShutDown, shutdownRequest, arrived, accepted,
                 h, errors, interrupted, exitCode>>

\* server.py:47  serve_forever is entered: its first statement,
\* self.__is_shut_down.clear(), runs; the try block starts after it.
serve_forever ==
  /\ pc = "serve_forever"
  /\ isShutDown' = FALSE
  /\ pc' = "select"
  /\ UNCHANGED <<cfg, bound, sock, shutdownRequest, arrived, accepted, h, errors,
                 console, interrupted, exitCode>>

\* A client connects; the kernel completes the handshake and queues the
\* connection on the listening socket.
Connect ==
  /\ sock = "listening"
  /\ arrived < MaxConns
  /\ arrived' = arrived + 1
  /\ UNCHANGED <<cfg, bound, pc, sock, isShutDown, shutdownRequest, accepted, h,
                 errors, console, interrupted, exitCode>>

\* The serve loop: select() reports the socket readable and
\* _handle_request_noblock accepts the oldest queued connection; the handler
\* is constructed and blocks reading the request line.
get_request ==
  /\ pc = "select"
  /\ ~shutdownRequest
  /\ accepted < arrived
  /\ accepted' = accepted + 1
  /\ pc' = "handle"
  /\ UNCHANGED <<cfg, bound, sock, isShutDown, shutdownRequest, arrived, h, errors,
                 console, interrupted, exitCode>>

\* The client of the accepted connection sends its request (or closes) and
\* the handler runs to its end, in the main thread.
finish_request ==
  /\ pc = "handle"
  /\ \E req \in Requests, fault \in Faults :
        h' = MyHTTPRequestHandler(cfg, req, fault)
  /\ pc' = "finish"
  /\ UNCHANGED <<cfg, bound, sock, isShutDown, shutdownRequest, arrived, accepted,
                 errors, console, interrupted, exitCode>>

\* BaseServer.handle_error: print a traceback on stderr and continue
handle_error(n) == n + 1

\* where the main thread goes when an exception leaves the handler and
\* nothing catches it
Propagate(hh) == IF Raised(hh) THEN "crashed" ELSE "select"

\* _handle_request_noblock: "except Exception" catches what the handler
\* raised, so the serve loop goes on after every request
AfterRequest(hh) == "select"

\* _handle_request_noblock after the handler returned or raised: an
\* Exception goes to handle_error; either way the connection is closed, the
\* handler instance is dropped and the loop goes on.
shutdown_request ==
  /\ pc = "finish"
  /\ errors' = IF Raised(h) THEN handle_error(errors) ELSE errors
  /\ h' = NoHandler
  /\ pc' = AfterRequest(h)
  /\ UNCHANGED <<cfg, bound, sock, isShutDown, shutdownRequest, arrived, accepted,
                 console, interrupted, exitCode>>

\* SIGINT: KeyboardInterrupt is raised in the main thread wherever it is.
\* Before the try of server.py:46 it is not caught: the with block closes
\* the socket and the process dies of the exception.  In serve_forever
\* before its try block (pc = "serve_forever") it reaches server.py:48 and
\* no finally clause has run.  In the serve loop the finally clause of
\* serve_forever sets __is_shut_down on the way out.
KeyboardInterrupt ==
  /\ interrupted = "no"
  /\ pc \in {"banner", "serve_forever", "select", "handle", "finish"}
  /\ interrupted' = pc
  /\ IF pc = "banner"
       THEN /\ sock' = "closed"
            /\ pc' = "exited"
            /\ exitCode' = 1
            /\ UNCHANGED <<isShutDown, shutdownRequest, h>>
       ELSE /\ pc' = "except"
            /\ h' = NoHandler
            /\ IF pc = "serve_forever"
                 THEN UNCHANGED <<isShutDown, shutdownRequest>>
                 ELSE /\ shutdownRequest' = FALSE
                      /\ isShutDown' = TRUE
            /\ UNCHANGED <<sock, exitCode>>
  /\ UNCHANGED <<cfg, bound, arrived, accepted, errors, console>>

\* server.py:49
PrintStopped ==
  /\ pc = "except"
  /\ console' = Append(console, "stopped")
  /\ pc' = "shutdown"
  /\ UNCHANGED <<cfg, bound, sock, isShutDown, shutdownRequest, arrived, accepted,
                 h, errors, interrupted, exitCode>>

\* server.py:50  httpd.shutdown(): self.__shutdown_request = True ...
shutdown ==
  /\ pc = "shutdown"
  /\ shutdownRequest' = TRUE
  /\ pc' = "wait"
  /\ UNCHANGED <<cfg, bound, sock, isShutDown, arrived, accepted, h, errors,
                 console, interrupted, exitCode>>

\* ... self.__is_shut_down.wait(): returns once the event is set
shutdown_wait ==
  /\ pc = "wait"
  /\ isShutDown
  /\ pc' = "with_exit"
  /\ UNCHANGED <<cfg, bound, sock, isShutDown, shutdownRequest, arrived, accepted,
                 h, errors, console, interrupted, exitCode>>

\* server.py:36  leaving the with block: server_close(); start_server
\* returns and the process ends
server_close ==
  /\ pc = "with_exit"
  /\ sock' = "closed"
  /\ pc' = "exited"
  /\ exitCode' = 0
  /\ UNCHANGED <<cfg, bound, isShutDown, shutdownRequest, arrived, accepted, h,
                 errors, console, interrupted>>

Next ==
  \/ TCPServer
  \/ Banner
  \/ serve_forever
  \/ Connect
  \/ get_request
  \/ finish_request
  \/ shutdown_request
  \/ KeyboardInterrupt
  \/ PrintStopped
  \/ shutdown
  \/ shutdown_wait
  \/ server_close

Spec == Init /\ [][Next]_vars

(***************************************************************************)
(* Part 4.  Properties                                                     *)
(*                                                                         *)
(* A handler that has run to its end is observed in the states with       *)
(* pc = "finish": h.req is the request, h.events what was printed and      *)
(* written for it, in order.                                               *)
(***************************************************************************)

Handled == pc = "finish"

\* the startup preconditions held: the root directory is there (and the
\* port was free, or nothing would be handled)
RootExists == Stat(cfg, DIRECTORY).kind = "dir"

EventsOf(hh, kinds) == {i \in 1..Len(hh.events) : hh.events[i].kind \in kinds}
Logs(hh) == EventsOf(hh, {"log"})
Heads(hh) == EventsOf(hh, {"head"})
Bodies(hh) == EventsOf(hh, {"body"})
\* what went onto the socket, in order
Wire(hh) == SelectSeq(hh.events, LAMBDA e : e.kind \in {"head", "body"})
\* a response was sent: something was written to the socket
Responded(hh) == Wire(hh) # <<>>

\* the status of a header block
StatusOf(lines) == lines[1].num

Occurrences(lines, name) == {i \in 1..Len(lines) : lines[i].name = name}

\* the header occurs exactly once in the block, with the value
HasOnce(lines, name, value) ==
  /\ Cardinality(Occurrences(lines, name)) = 1
  /\ \A i \in Occurrences(lines, name) : lines[i].value = value

CorsOnce(lines) ==
  /\ HasOnce(lines, "Access-Control-Allow-Origin", "*")
  /\ HasOnce(lines, "Access-Control-Allow-Methods", "GET, POST, OPTIONS")
  /\ HasOnce(lines, "Access-Control-Allow-Headers", "Content-Type")

\* the response is one header block with the three CORS headers, then
\* possibly a body
CarriesCors(hh) ==
  /\ Cardinality(Heads(hh)) = 1
  /\ \A i \in Heads(hh) : CorsOnce(hh.events[i].lines)

\* the request line is "<command> <target> HTTP/<a>.<b>" with a version the
\* server answers with a status line: below 2.0 and not HTTP/0.9
PlainLine(r) ==
  /\ r.shape = "line"
  /\ r.hasTarget
  /\ r.extra = 0
  /\ VersionSyntaxOK(r.version)
  /\ r.version.parts[1] < 2
  /\ r.version # V09

\* the target is "/" followed by a relative path p without ".." that names
\* a regular file under the root directory
NamesFileUnderRoot(r) ==
  /\ r.target.abs
  /\ ~r.target.slash
  /\ r.target.comps # <<>>
  /\ \A i \in 1..Len(r.target.comps) : r.target.comps[i] \notin {"..", "%2e%2e", "."}
  /\ Stat(cfg, DIRECTORY \o r.target.comps).kind = "file"
  /\ UnderRoot(cfg, DIRECTORY \o r.target.comps)

\* the conditional request the file satisfies: If-Modified-Since at or after
\* its modification time, and no If-None-Match
NotModified(r) ==
  /\ r.ims # NoIMS
  /\ ~r.inm
  /\ Stat(cfg, DIRECTORY \o r.target.comps).mtime <= r.ims

\* status 200 and, for GET, exactly the bytes of the file; for HEAD, no body
ServesFile(hh) ==
  /\ Cardinality(Heads(hh)) = 1
  /\ \A i \in Heads(hh) : StatusOf(hh.events[i].lines) = 200
  /\ IF hh.req.command = "GET"
       THEN /\ Cardinality(Bodies(hh)) = 1
            /\ \A i \in Bodies(hh) :
                  hh.events[i].bytes = Stat(cfg, DIRECTORY \o hh.req.target.comps).bytes
       ELSE Bodies(hh) = {}

----------------------------------------------------------------------------
\* C1 as stated: every response the server sends, whatever the request line
\* and the status, carries the three CORS headers exactly once.
C1_EveryResponseCarriesCors ==
  (RootExists /\ Handled /\ Responded(h)) => CarriesCors(h)

\* C1: every response that has a header section carries each of the three
\* CORS headers exactly once with its fixed value, and a response has a
\* header section exactly when the request version in force is not HTTP/0.9.
C1_HeaderBlocksCarryCors ==
  Handled =>
    /\ \A i \in Heads(h) : CorsOnce(h.events[i].lines)
    /\ Cardinality(Heads(h)) <= 1
    /\ Responded(h) => (Heads(h) # {} <=> h.request_version # V09)

C1_Witness ==
  /\ Handled
  /\ h.req.command = "POST"
  /\ \E i \in Heads(h) : StatusOf(h.events[i].lines) = 501 /\ CorsOnce(h.events[i].lines)

----------------------------------------------------------------------------
----------------------------------------------------------------------------
\* C3 as stated: an OPTIONS request to any path is answered 200 with an
\* empty body and the three CORS headers.
C3_OptionsIs200 ==
  (/\ RootExists
   /\ Handled
   /\ h.fault = "none"
   /\ PlainLine(h.req)
   /\ h.req.command = "OPTIONS")
  => /\ CarriesCors(h)
     /\ \A i \in Heads(h) : StatusOf(h.events[i].lines) = 200
     /\ Bodies(h) = {}

----------------------------------------------------------------------------
\* no component of the path is a symbolic link
NoLinkOn(p) == \A k \in 1..Len(p) : NodeAt(cfg, SubSeq(p, 1, k)).kind # "link"

\* the request path with its ".." (plain or percent-encoded) and "."
\* components left out
RECURSIVE WithoutDots(_)
WithoutDots(comps) ==
  IF comps = <<>> THEN <<>>
  ELSE IF unquote(Head(comps)) \in {".", ".."} THEN WithoutDots(Tail(comps))
  ELSE <<Head(comps)>> \o WithoutDots(Tail(comps))

HasDotDot(comps) == \E i \in 1..Len(comps) : unquote(comps[i]) = ".."

\* the file whose bytes are sent is h.f
SendsFile(hh) == \E i \in Bodies(hh) : hh.events[i].src = "file"

----------------------------------------------------------------------------
\* a startup precondition fails: the port is taken or the root directory is
\* missing
StartupPreconditionFails == PORT \in bound \/ ~RootExists

\* C5 as stated: when a startup precondition fails, start_server never
\* listens, serves no request and the process exits with a non-zero code.
C5_NoListeningAfterFailedStartup ==
  StartupPreconditionFails =>
    /\ sock # "listening"
    /\ accepted = 0
    /\ pc = "exited" => exitCode # 0

----------------------------------------------------------------------------
\* the request ended in an error of its own: the handler raised, or answered
\* with an error status
PerRequestError(hh) == Raised(hh) \/ hh.error >= 400

\* C6: after a request that ended in an error the server goes back to the
\* serve loop: it still listens, it has not exited and is not shutting down,
\* and nothing of the failed request is left in the handler state.
C6_ErrorStaysInRequest ==
  [][(/\ pc = "finish"
      /\ PerRequestError(h)
      /\ pc' # pc
      /\ interrupted' = interrupted)
     => (/\ pc' = "select"
         /\ sock' = "listening"
         /\ exitCode' = Running
         /\ ~shutdownRequest'
         /\ h' = NoHandler
         /\ accepted' = accepted
         /\ arrived' = arrived)]_vars

\* a connection accepted after a handler raised is answered in full
C6_Witness ==
  /\ Handled
  /\ errors >= 1
  /\ accepted = 2
  /\ h.req.command = "GET"
  /\ h.req.target = Target(TRUE, <<>>, TRUE)
  /\ \E i \in Heads(h) : StatusOf(h.events[i].lines) = 200
  /\ \E i \in Bodies(h) : h.events[i].bytes = <<1, 2, 3>>

----------------------------------------------------------------------------
\* C7 as stated: while connection A is accepted and its handler has not
\* finished, a connection B that arrives is accepted without waiting for A.
C7_SecondConnectionAccepted ==
  (RootExists /\ pc = "handle" /\ arrived > accepted) => ENABLED get_request

----------------------------------------------------------------------------
\* SIGINT arrived while the main thread was in serve_forever
InterruptedInServeForever ==
  interrupted \in {"serve_forever", "select", "handle", "finish"}

\* C8 as stated: an interrupt received in serve_forever always leads to a
\* clean stop: no connection is accepted any more, httpd.shutdown() returns,
\* the shutdown line is printed, the socket is closed and the exit code is 0.
C8_InterruptStopsCleanly ==
  (RootExists /\ InterruptedInServeForever) =>
    /\ pc \notin {"select", "handle", "finish"}
    /\ pc = "wait" => ENABLED shutdown_wait
    /\ pc = "exited" =>
         /\ exitCode = 0
         /\ sock = "closed"
         /\ console = <<"banner", "stopped">>

----------------------------------------------------------------------------
\* every log line comes after everything written to the socket
LoggedAfterResponse(hh) ==
  \A i \in Logs(hh) : \A j \in Heads(hh) \cup Bodies(hh) : j < i

\* every log line comes before anything written to the socket
LoggedBeforeResponse(hh) ==
  \A i \in Logs(hh) : \A j \in Heads(hh) \cup Bodies(hh) : i < j

\* C9 as stated: for every request answered, exactly one log line is
\* written, after the response has been sent.
C9_OneLogLineAfterResponse ==
  (RootExists /\ Handled /\ Responded(h)) =>
    /\ Cardinality(Logs(h)) = 1
    /\ LoggedAfterResponse(h)

\* C9: for every request answered, the log lines are written before the
\* first byte of the response: one line for a response that send_response
\* starts, two lines (the error line, then the request line) for a response
\* that send_error produces.
C9_LogLinesBeforeResponse ==
  (Handled /\ Responded(h)) =>
    /\ LoggedBeforeResponse(h)
    /\ Cardinality(Logs(h)) = (IF h.error # 0 THEN 2 ELSE 1)
    /\ \A i \in Logs(h) : h.events[i].fmt = "error" <=> (h.error # 0 /\ i = 1)

C9_Witness ==
  /\ Handled
  /\ h.error = 404
  /\ Cardinality(Logs(h)) = 2
  /\ \E i \in Bodies(h) : h.events[i].bytes = ErrorBody(404)

----------------------------------------------------------------------------
\* C10 as stated: when print raises inside log_message, the client still
\* receives the response it would have received had logging succeeded.
C10_LogFailureLeavesResponse ==
  (RootExists /\ Handled /\ h.fault = "print") =>
    Wire(h) = Wire(MyHTTPRequestHandler(cfg, h.req, "none"))

====
